---------------------------- MODULE Spec2Model ----------------------------
(***************************************************************************)
(* Coordinate Ascent Variational Inference for a mixture of Gaussians      *)
(* (src/pyInference/mixtureOfGaussians/gmm_cavi.py), as a state machine.   *)
(*                                                                         *)
(* Numbers.  A float64 of the program is modelled as a record [o, v]       *)
(* denoting (v / U) * H^o: v is a fixed-point coefficient with resolution  *)
(* 1/U and H = 2^100 is one "huge" magnitude.  In IEEE double arithmetic a *)
(* sum of two terms whose magnitudes differ by a factor H returns the      *)
(* larger term unchanged (the smaller one is far below half an ulp), which *)
(* is what Add does; products add the orders.  Within one order the        *)
(* coefficient arithmetic rounds to the nearest point of the grid 1/U.     *)
(***************************************************************************)
EXTENDS Integers, Sequences, FiniteSets, TLC

(***************************************************************************)
(* Fixed-point coefficient arithmetic                                      *)
(***************************************************************************)
U == 10^4

AbsV(a) == IF a < 0 THEN -a ELSE a

\* a * b / U rounded to the nearest grid point, computed in parts so that no
\* partial product overflows
MulV(a, b) ==
    LET ah == a \div U
        al == a % U
        bh == b \div U
        bl == b % U
    IN  ah * bh * U + ah * bl + al * bh + (al * bl + U \div 2) \div U

\* a * U / b for b > 0 rounded to the nearest grid point, by long division two
\* decimal digits at a time
DivPos(a, b) ==
    LET q0 == a \div b
        r0 == a % b
        q1 == (r0 * 100) \div b
        r1 == (r0 * 100) % b
        q2 == (r1 * 100) \div b
        r2 == (r1 * 100) % b
    IN  q0 * U + q1 * 100 + q2 + (IF 2 * r2 >= b THEN 1 ELSE 0)

DivV(a, b) == IF b < 0 THEN DivPos(-a, -b) ELSE DivPos(a, b)

(***************************************************************************)
(* numpy / scipy.special functions on coefficients (arguments of order 0)  *)
(***************************************************************************)
\* ln 2 on the grid
Ln2V == DivV(6931472, 10^7)

\* ln(m / U) for U <= m < 2U:  2 (z + z^3/3 + z^5/5 + z^7/7), z = (m-1)/(m+1)
LnMantV(m) ==
    LET z  == DivV(m - U, m + U)
        z2 == MulV(z, z)
        z3 == MulV(z2, z)
        z5 == MulV(z3, z2)
        z7 == MulV(z5, z2)
    IN  2 * (z + z3 \div 3 + z5 \div 5 + z7 \div 7)

RECURSIVE LogV(_)
\* np.log on a positive coefficient
LogV(x) ==
    IF x >= 2 * U THEN Ln2V + LogV(x \div 2)
    ELSE IF x < U THEN LogV(2 * x) - Ln2V
    ELSE LnMantV(x)

\* the number of steps of 1 that take the positive coefficient x to t or above
StepsUpTo(x, t) == IF x >= t THEN 0 ELSE (t - x + U - 1) \div U

RECURSIVE RecipSum(_, _)
\* 1/x + 1/(x + 1) + ... + 1/(x + n - 1)
RecipSum(x, n) ==
    IF n = 0 THEN 0 ELSE RecipSum(x, n - 1) + DivV(U, x + (n - 1) * U)

\* scipy.special.psi (digamma) on a positive coefficient: recurrence
\* psi(x) = psi(x + 1) - 1/x up to y >= 6, there
\* ln y - 1/(2y) - 1/(12y^2)
PsiV(x) ==
    LET n == StepsUpTo(x, 6 * U)
        y == x + n * U
    IN  LogV(y) - DivV(U, 2 * y) - DivV(U, 12 * MulV(y, y)) - RecipSum(x, n)

RECURSIVE LogSum(_, _)
\* ln x + ln(x + 1) + ... + ln(x + n - 1)
LogSum(x, n) ==
    IF n = 0 THEN 0 ELSE LogSum(x, n - 1) + LogV(x + (n - 1) * U)

\* scipy.special.gammaln on a positive coefficient: recurrence
\* gammaln(x) = gammaln(x + 1) - ln x up to y >= 7, there
\* Stirling: (y - 1/2) ln y - y + ln(2 pi)/2 + 1/(12y)
GammaLnV(x) ==
    LET n == StepsUpTo(x, 7 * U)
        y == x + n * U
    IN  MulV(y - U \div 2, LogV(y)) - y + DivV(9189385, 10^7)
        + DivV(U, 12 * y) - LogSum(x, n)

\* ln(pi) on the grid
LnPiV == DivV(11447299, 10^7)

\* scipy.special.multigammaln(a, d) =
\*   d (d - 1) / 4 * ln(pi) + sum_{j = 1..d} gammaln(a - (j - 1) / 2)
RECURSIVE MultiGammaSum(_, _)
MultiGammaSum(a, j) ==
    IF j = 0 THEN 0
    ELSE GammaLnV(a - ((j - 1) * U) \div 2) + MultiGammaSum(a, j - 1)

MultiGammaLnV(a, d) == (d * (d - 1) * LnPiV) \div 4 + MultiGammaSum(a, d)

RECURSIVE ExpV(_)
\* np.exp on a coefficient x <= 0: halve the argument down to |x| < 1/4,
\* Taylor polynomial of degree 4 there, square on the way back
ExpV(x) ==
    IF x < -16 * U THEN 0
    ELSE IF x < -(U \div 4)
         THEN LET h == ExpV(x \div 2) IN MulV(h, h)
         ELSE LET x2 == MulV(x, x)
                  x3 == MulV(x2, x)
                  x4 == MulV(x2, x2)
              IN  U + x + x2 \div 2 + x3 \div 6 + x4 \div 24

(***************************************************************************)
(* float64 values [o, v] = (v / U) * H^o                                   *)
(***************************************************************************)
F(c) == [o |-> 0, v |-> c]

Zero == F(0)

Norm(a) == IF a.v = 0 THEN Zero ELSE a

\* value, computed after its operands args: Python computes the operands of
\* an expression before it applies the operation
Given(args, value) == << args, value >>[2]

\* a + b: the term of higher order absorbs the other one
Add(a, b) ==
    IF a.v = 0 THEN b
    ELSE IF b.v = 0 THEN a
    ELSE IF a.o > b.o THEN a
    ELSE IF b.o > a.o THEN b
    ELSE Norm([o |-> a.o, v |-> a.v + b.v])

Neg(a) == [o |-> a.o, v |-> -a.v]

Sub(a, b) == Add(a, Neg(b))

Mul(a, b) ==
    Given(<<a, b>>, Norm([o |-> a.o + b.o, v |-> MulV(a.v, b.v)]))

Div(a, b) ==
    Given(<<a, b>>, Norm([o |-> a.o - b.o, v |-> DivV(a.v, b.v)]))

Abs(a) == [o |-> a.o, v |-> AbsV(a.v)]

\* a < b
Lt(a, b) == Sub(a, b).v < 0

\* the integer c as a float
Int2F(c) == F(c * U)

\* c / 2 for an integer c, as the program's "(1 / 2.)", "(D / 2.)"
Half(c) == F((c * U) \div 2)

psi(a) == F(PsiV(a.v))

gammaln(a) == F(GammaLnV(a.v))

multigammaln(a, d) == F(MultiGammaLnV(a.v, d))

log(a) == F(LogV(a.v))

exp(a) == F(ExpV(a.v))

\* np.finfo(np.float32).eps = 2^-23, on the grid
eps == F(DivV(U, 2^23))

\* 1 / eps: the number of units of eps in 1.0
EpsInv == 2^23

\* a coefficient c in 0..U (a float in [0, 1]) in units of eps, rounded
ToEpsUnits(c) ==
    c * (EpsInv \div U) + (c * (EpsInv % U) + U \div 2) \div U

RECURSIVE RatioDigits(_, _, _)
\* the first n decimal digits of r / b for 0 <= r < b, and the remainder
RatioDigits(r, b, n) ==
    IF n = 0 THEN [q |-> 0, r |-> r]
    ELSE LET d == RatioDigits(r, b, n - 1)
         IN  [q |-> d.q * 10 + (d.r * 10) \div b, r |-> (d.r * 10) % b]

\* a / b on the grid for integers 0 <= a <= b, rounded to the nearest point
Ratio(a, b) ==
    IF a = b THEN U
    ELSE LET d == RatioDigits(a, b, 4)
         IN  d.q + (IF 2 * d.r >= b THEN 1 ELSE 0)

(***************************************************************************)
(* Vectors (functions on 1..n) and 2 x 2 matrices (tuples of rows)         *)
(***************************************************************************)
\* a numpy array holds computed entries: the function f on 1..n as the tuple
\* of its values
Array(f) == f \o << >>

RECURSIVE SumTo(_, _)
\* f[1] + ... + f[n], added in index order as np.sum and the "+=" loops do
SumTo(f, n) == IF n = 0 THEN Zero ELSE Add(SumTo(f, n - 1), f[n])

\* np.sum of a vector
Sum(f) == SumTo(f, Cardinality(DOMAIN f))

RECURSIVE MaxTo(_, _)
MaxTo(f, n) ==
    IF n = 1 THEN f[1]
    ELSE LET m == MaxTo(f, n - 1) IN IF Lt(m, f[n]) THEN f[n] ELSE m

RECURSIVE AddTo(_, _, _)
\* a + ts[1] + ... + ts[n], one "+=" after the other
AddTo(a, ts, n) == IF n = 0 THEN a ELSE Add(AddTo(a, ts, n - 1), ts[n])

\* a variable assigned a, after the statements "+= t" for the terms of ts in
\* order (a "-= t" is the term Neg(t))
AddAll(a, ts) == Given(a, AddTo(a, ts, Len(ts)))

\* np.max of a non-empty vector
Max(f) == MaxTo(f, Cardinality(DOMAIN f))

\* np.dot of two 2-vectors
Dot(a, b) == Given(<<a, b>>, Add(Mul(a[1], b[1]), Mul(a[2], b[2])))

\* np.outer of two 2-vectors
Outer(a, b) == << <<Mul(a[1], b[1]), Mul(a[1], b[2])>>,
                  <<Mul(a[2], b[1]), Mul(a[2], b[2])>> >>

\* matrix times vector, np.dot(A, x)
MatVec(A, x) == Given(<<A, x>>, << Dot(A[1], x), Dot(A[2], x) >>)

\* vector times matrix, np.dot(x, A)
VecMat(x, A) ==
    Given(<<x, A>>, << Add(Mul(x[1], A[1][1]), Mul(x[2], A[2][1])),
                       Add(Mul(x[1], A[1][2]), Mul(x[2], A[2][2])) >>)

MatAdd(A, B) == << <<Add(A[1][1], B[1][1]), Add(A[1][2], B[1][2])>>,
                   <<Add(A[2][1], B[2][1]), Add(A[2][2], B[2][2])>> >>

MatSub(A, B) == << <<Sub(A[1][1], B[1][1]), Sub(A[1][2], B[1][2])>>,
                   <<Sub(A[2][1], B[2][1]), Sub(A[2][2], B[2][2])>> >>

\* scalar times matrix
MatScale(c, A) ==
    Given(<<c, A>>, << <<Mul(c, A[1][1]), Mul(c, A[1][2])>>,
                       <<Mul(c, A[2][1]), Mul(c, A[2][2])>> >>)

\* scalar times vector
VecScale(c, x) == << Mul(c, x[1]), Mul(c, x[2]) >>

VecAdd(a, b) == << Add(a[1], b[1]), Add(a[2], b[2]) >>

\* np.trace(np.dot(A, B))
TraceDot(A, B) ==
    Given(<<A, B>>,
          Add(Add(Mul(A[1][1], B[1][1]), Mul(A[1][2], B[2][1])),
              Add(Mul(A[2][1], B[1][2]), Mul(A[2][2], B[2][2]))))

Transpose(A) == << <<A[1][1], A[2][1]>>, <<A[1][2], A[2][2]>> >>

\* numpy.linalg.det
det(A) == Given(A, Sub(Mul(A[1][1], A[2][2]), Mul(A[1][2], A[2][1])))

\* numpy.linalg.inv raises LinAlgError("Singular matrix") on such a matrix
Singular(A) == det(A).v = 0

\* numpy.linalg.inv of a non-singular matrix
inv(A) ==
    LET d == det(A)
    IN  Given(d,
           << <<Div(A[2][2], d), Div(Neg(A[1][2]), d)>>,
              <<Div(Neg(A[2][1]), d), Div(A[1][1], d)>> >>)

(***************************************************************************)
(* Program state                                                           *)
(***************************************************************************)
VARIABLES
    K,            \* args.k
    MAX_ITERS,    \* args.maxIter
    VERBOSE,      \* args.verbose
    RANDOM_INIT,  \* args.randomInit
    xn,           \* the dataset: a sequence of points <<x1, x2>>
    pc,           \* the statement main() is at
    i,            \* loop index of the sweep
    n_iters,      \* sweeps completed
    lbs,          \* the ELBO trace
    lb,           \* ELBO of the current sweep
    Nks,          \* column sums of lambda_phi taken after update 1
    lambda_phi, lambda_pi, lambda_beta, lambda_nu, lambda_m, lambda_W,
    circs,        \* the ellipses plot_iteration has on the axes
    saved,        \* plt.savefig has written results.png
    exit,         \* how the run left the loop
    raised,       \* the exception that ended the run
    phi_init,     \* history: lambda_phi as the initialisation left it
    e_x,          \* softmax(): exp(x - max(x)) of the row, in units of eps
    ret           \* softmax(): the row returned, numerators and denominator

params == <<lambda_phi, lambda_pi, lambda_beta, lambda_nu, lambda_m, lambda_W>>

config == <<K, MAX_ITERS, VERBOSE, RANDOM_INIT, xn>>

softmax_call == <<e_x, ret>>

vars == <<config, pc, i, n_iters, lbs, lb, Nks, params, circs, saved, exit,
          raised, phi_init, softmax_call>>

\* N, D = xn.shape; the aux arrays of the updates fix D = 2
N == Len(xn)

D == 2

Ks == 1..K

Ns == 1..N

(***************************************************************************)
(* Priors                                                                  *)
(***************************************************************************)
alpha_o == [k \in Ks |-> Int2F(1)]

nu_o == Int2F(3)

W_o == << <<Int2F(20), Int2F(30)>>, <<Int2F(25), Int2F(40)>> >>

m_o == << Zero, Zero >>

beta_o == F((7 * U) \div 10)

\* |lb - lbs[i - 1]| < THRESHOLD with THRESHOLD = 1e-10: a difference d on the
\* grid is below 10^-10 iff d * 10^10 < U
BelowThreshold(d) ==
    /\ d.o <= 0
    /\ \/ d.o < 0
       \/ d.v <= U /\ d.v * 10^5 <= (U - 1) \div 10^5

(***************************************************************************)
(* The update equations                                                    *)
(***************************************************************************)
\* lambda_phi[:, k]
Column(phi, k) == Array([n \in DOMAIN phi |-> phi[n][k]])

\* psi(alpha[k] + eps) - psi(np.sum(alpha))
dirichlet_expectation(alpha, k) ==
    Sub(psi(Add(alpha[k], eps)), psi(Sum(alpha)))

RECURSIVE SumInt(_, _)
\* e[1] + ... + e[n] for integers
SumInt(e, n) == IF n = 0 THEN 0 ELSE SumInt(e, n - 1) + e[n]

\* e_x + eps, in units of eps
softmaxNum(e) == Array([k \in DOMAIN e |-> e[k] + 1])

\* e_x.sum(axis=0) + eps, in units of eps
softmaxDen(e) == SumInt(e, Cardinality(DOMAIN e)) + 1

\* softmax(x) = (e_x + eps) / (e_x.sum(axis=0) + eps), e_x = exp(x - max(x)):
\* exactly in units of eps, then rounded to the grid
softmax(x) ==
    LET mx  == Max(x)
        ex  == Array([k \in DOMAIN x |-> ToEpsUnits(exp(Sub(x[k], mx)).v)])
        num == softmaxNum(ex)
        den == softmaxDen(ex)
    IN  Given(<<x, mx, ex>>, Array([k \in DOMAIN x |-> F(Ratio(num[k], den))]))

\* alpha_o[k] + sum_n lambda_phi[n, k]
update_lambda_pi(phi, alpha) ==
    Array([k \in Ks |-> Add(alpha[k], Sum(Column(phi, k)))])

\* Nks = np.sum(lambda_phi, axis=0)
ColumnSums(phi) == Array([k \in Ks |-> Sum(Column(phi, k))])

\* beta_o + Nk
update_lambda_beta(beta0, nks) == Array([k \in Ks |-> Add(beta0, nks[k])])

\* the prior alone, without the membership counts
update_lambda_nuPriorOnly(nu0, nks) == Array([k \in Ks |-> nu0])

\* nu_o + Nk
update_lambda_nu(nu0, nks) == Array([k \in Ks |-> Add(nu0, nks[k])])

\* sum_n lambda_phi[n, k] * xn[n, :]
WeightedPoints(phi, k) ==
    << Sum([n \in Ns |-> Mul(phi[n][k], xn[n][1])]),
       Sum([n \in Ns |-> Mul(phi[n][k], xn[n][2])]) >>

\* xn_xnt[n] = np.outer(xn[n, :], xn[n, :].T)
xn_xnt(n) == Outer(xn[n], xn[n])

\* sum_n lambda_phi[n, k] * xn_xnt[n]
WeightedOuter(phi, k) ==
    Array([a \in 1..2 |-> Array([b \in 1..2 |->
        Sum([n \in Ns |-> Mul(phi[n][k], xn_xnt(n)[a][b])])])])

\* (m_o.T * beta_o + aux) / lambda_beta[k]
update_lambda_m(phi, beta, m0, beta0) ==
    Array([k \in Ks |->
        LET num == VecAdd(VecScale(beta0, m0), WeightedPoints(phi, k))
        IN  << Div(num[1], beta[k]), Div(num[2], beta[k]) >>])

\* W_o + outer(beta_o * m_o, m_o) + aux - outer(lambda_beta[k] * lambda_m[k],
\*                                              lambda_m[k])
update_lambda_W(phi, beta, m, W0, beta0, m0) ==
    Array([k \in Ks |->
        MatSub(MatAdd(MatAdd(W0, Outer(VecScale(beta0, m0), m0)),
                      WeightedOuter(phi, k)),
               Outer(VecScale(beta[k], m[k]), m[k]))])

\* sum(psi([lambda_nu[k] / 2. + (1 - i) / 2. for i in range(D)]))
PsiSum(nuk) ==
    Sum([j \in 1..D |-> psi(Add(Mul(nuk, Half(1)), Half(1 - (j - 1))))])

\* the score lambda_phi[n, k] holds before the softmax of row n
Score(n, k, pi_, m, nu, W, beta) ==
    LET iW == inv(W[k])
        t1 == dirichlet_expectation(pi_, k)
        t2 == Dot(m[k], MatVec(MatScale(nu[k], iW), xn[n]))
        t3 == TraceDot(MatScale(Mul(Half(1), nu[k]), iW),
                       Outer(xn[n], xn[n]))
        t4 == Mul(Half(D), Div(Int2F(1), beta[k]))
        t5 == Mul(Half(1), Dot(VecMat(VecScale(nu[k], m[k]), iW), m[k]))
        t6 == Mul(Half(D), log(Int2F(2)))
        t7 == Mul(Half(1), PsiSum(nu[k]))
        t8 == Mul(Half(1), log(det(W[k])))
    IN  AddAll(t1, << t2, Neg(t3), Neg(t4), Neg(t5), t6, t7, Neg(t8) >>)

\* rows of lambda_phi are recomputed in place, one point at a time
update_lambda_phi(pi_, m, nu, W, beta) ==
    Array([n \in Ns |->
        softmax(Array([k \in Ks |-> Score(n, k, pi_, m, nu, W, beta)]))])

(***************************************************************************)
(* ELBO                                                                    *)
(***************************************************************************)
\* 2 * np.pi on the grid
TwoPi == F(DivV(62831853, 10^7))

\* the four expectations of the Normal Inverse Wishart sufficient statistics
NIW_sufficient_statistics(k, nu, W, m, beta) ==
    LET iW == inv(W[k])
    IN  << MatVec(MatScale(nu[k], iW), m[k]),
           MatScale(Mul(Neg(Half(1)), nu[k]), iW),
           Sub(Mul(Neg(Half(D)), Div(Int2F(1), beta[k])),
               Mul(Mul(Half(1), nu[k]), Dot(VecMat(m[k], iW), m[k]))),
           Sub(Add(Mul(Half(D), log(Int2F(2))),
                   Mul(Half(1), PsiSum(nu[k]))),
               Mul(Half(1), log(det(W[k])))) >>

\* np.dot(np.log(lambda_phi[:, k]).T, lambda_phi[:, k]); an entry the grid
\* rounds to 0 stands for a float in (0, 1/U), whose p log p rounds to 0
Entropy(phi, k) ==
    Sum([n \in Ns |-> IF phi[n][k].v = 0 THEN Zero
                       ELSE Mul(log(phi[n][k]), phi[n][k])])

\* the terms of elbop before the loop over k
ElbopStart ==
    AddAll(Neg(Mul(Mul(Half(D * (N + 1)), Int2F(K)), log(TwoPi))),
           << Neg(Div(Mul(Mul(Mul(Int2F(K), nu_o), Int2F(D)),
                          log(Int2F(2))), Int2F(2))),
              Neg(Mul(Int2F(K), multigammaln(Div(nu_o, Int2F(2)), D))),
              Mul(Mul(Half(D), Int2F(K)), log(Abs(beta_o))),
              Mul(Mul(Div(nu_o, Int2F(2)), Int2F(K)), log(det(W_o))) >>)

\* the terms of elboq before the loop over k
ElboqStart == Neg(Mul(Mul(Half(D), Int2F(K)), log(TwoPi)))

\* what iteration k of the loop adds to elbop
ElbopTerm(p, k, phi, nks, ss) ==
    LET aux1 == WeightedPoints(phi, k)
        aux2 == WeightedOuter(phi, k)
    IN  AddAll(p,
          << Neg(gammaln(alpha_o[k])),
             gammaln(Sum(alpha_o)),
             Mul(Add(Sub(alpha_o[k], Int2F(1)), Sum(Column(phi, k))),
                 dirichlet_expectation(alpha_o, k)),
             Dot(VecAdd(VecScale(beta_o, m_o), aux1), ss[1]),
             TraceDot(Transpose(MatAdd(MatAdd(W_o, Outer(VecScale(beta_o,
                                                                  m_o),
                                                         m_o)), aux2)),
                      ss[2]),
             Mul(Add(beta_o, nks[k]), ss[3]),
             Mul(Add(Add(Add(nu_o, Int2F(D)), Int2F(2)), nks[k]), ss[4]) >>)

\* what iteration k of the loop adds to elboq
ElboqTerm(q, k, phi, pi_, m, W, beta, nu, ss) ==
    AddAll(q,
      << Neg(gammaln(pi_[k])),
         gammaln(Sum(pi_)),
         Mul(Add(Sub(pi_[k], Int2F(1)), Sum(Column(phi, k))),
             dirichlet_expectation(pi_, k)),
         Dot(VecScale(beta[k], m[k]), ss[1]),
         TraceDot(Transpose(MatAdd(W[k], Outer(VecScale(beta[k], m[k]),
                                               m[k]))), ss[2]),
         Mul(beta[k], ss[3]),
         Mul(Add(Add(nu[k], Int2F(D)), Int2F(2)), ss[4]),
         Neg(Mul(Div(Mul(nu[k], Int2F(D)), Int2F(2)), log(Int2F(2)))),
         Neg(multigammaln(Div(nu[k], Int2F(2)), D)),
         Mul(Half(D), log(Abs(beta[k]))),
         Mul(Div(nu[k], Int2F(2)), log(det(W[k]))),
         Entropy(phi, k) >>)

\* iteration k of "for k in range(K)" on acc = <<elbop, elboq>>
ElboStep(acc, k, phi, pi_, m, W, beta, nu, nks) ==
    LET ss == NIW_sufficient_statistics(k, nu, W, m, beta)
    IN  Given(ss, << ElbopTerm(acc[1], k, phi, nks, ss),
                     ElboqTerm(acc[2], k, phi, pi_, m, W, beta, nu, ss) >>)

RECURSIVE ElboLoop(_, _, _, _, _, _, _, _)
\* <<elbop, elboq>> after iterations 1..k of "for k in range(K)"
ElboLoop(k, phi, pi_, m, W, beta, nu, nks) ==
    IF k = 0 THEN << ElbopStart, ElboqStart >>
    ELSE LET acc == ElboLoop(k - 1, phi, pi_, m, W, beta, nu, nks)
         IN  Given(acc, ElboStep(acc, k, phi, pi_, m, W, beta, nu, nks))

\* elbop - elboq
elbo(phi, pi_, m, W, beta, nu, nks) ==
    LET acc == ElboLoop(K, phi, pi_, m, W, beta, nu, nks)
    IN  Sub(acc[1], acc[2])

(***************************************************************************)
(* Inputs                                                                  *)
(***************************************************************************)
MaxK == 2

MaxIters == 3

\* np.random.dirichlet rows are drawn from the points of the simplex whose
\* coordinates are positive multiples of 1 / DrawParts
DrawParts == 3

\* the float 2^100
H == [o |-> 1, v |-> U]

Datasets ==
    { << <<Int2F(0), Int2F(0)>>, <<Int2F(4), Int2F(4)>> >>,
      << <<H, H>> >> }

\* the rows np.random.dirichlet(alpha_o, N) can return: each sums to 1, the
\* last coordinate taking up the rounding of the others
DirichletRows ==
    { [k \in Ks |->
        IF k < K THEN F((c[k] * U) \div DrawParts)
        ELSE F(U - SumInt([j \in 1..(K - 1) |-> (c[j] * U) \div DrawParts],
                          K - 1))] :
        c \in { c \in [Ks -> 1..DrawParts] :
                  SumInt(c, K) = DrawParts } }

\* init_kmeans: 0.1 / (K - 1) everywhere, 0.9 at the label of each point
init_kmeans(labels) ==
    [n \in Ns |-> [k \in Ks |->
        IF labels[n] = k THEN F((9 * U) \div 10)
        ELSE Div(F(U \div 10), Int2F(K - 1))]]

\* KMeans(K).fit(xn).predict(xn) on N >= K distinct points: every cluster
\* holds a point
KMeansLabels ==
    { l \in [Ns -> Ks] : \A k \in Ks : \E n \in Ns : l[n] = k }

zerosK == [k \in Ks |-> Zero]

(***************************************************************************)
(* main()                                                                  *)
(***************************************************************************)
NoException == [type |-> "none", message |-> ""]

Init ==
    /\ K \in 1..MaxK
    /\ MAX_ITERS \in 0..MaxIters
    /\ VERBOSE \in BOOLEAN
    /\ RANDOM_INIT \in BOOLEAN
    /\ xn \in Datasets
    /\ pc = "start"
    /\ i = 0
    /\ n_iters = 0
    /\ lbs = << >>
    /\ lb = Zero
    /\ Nks = << >>
    /\ lambda_phi = << >>
    /\ lambda_pi = << >>
    /\ lambda_beta = << >>
    /\ lambda_nu = << >>
    /\ lambda_m = << >>
    /\ lambda_W = << >>
    /\ circs = << >>
    /\ saved = FALSE
    /\ exit = "running"
    /\ raised = NoException
    /\ phi_init = << >>
    /\ e_x = << >>
    /\ ret = << >>

\* a sweep that updates lambda_W before lambda_m
BodyWBeforeM == << "update_lambda_pi", "Nks", "update_lambda_beta",
                   "update_lambda_nu", "update_lambda_W", "update_lambda_m",
                   "update_lambda_phi", "elbo", "append" >>

\* the statements of one sweep, in program order
Body == << "update_lambda_pi", "Nks", "update_lambda_beta",
           "update_lambda_nu", "update_lambda_m", "update_lambda_W",
           "update_lambda_phi", "elbo", "append" >>

\* the statement that follows statement p of the sweep
After(p) ==
    LET j == CHOOSE j \in 1..Len(Body) : Body[j] = p
    IN  IF j < Len(Body) THEN Body[j + 1]
        ELSE IF VERBOSE THEN "observe" ELSE "break_check"

\* an exception propagates out of main(): nothing catches it
Raise(type, message) ==
    /\ pc' = "error"
    /\ exit' = "exception"
    /\ raised' = [type |-> type, message |-> message]

\* lines 252-285: load the data, set the priors, initialise the parameters
Initialize ==
    /\ pc = "start"
    /\ IF RANDOM_INIT
       THEN /\ lambda_phi' \in [Ns -> DirichletRows]
            /\ pc' = "loop"
            /\ UNCHANGED <<exit, raised>>
       ELSE IF K - 1 = 0
       THEN /\ Raise("ZeroDivisionError", "float division by zero")
            /\ lambda_phi' = lambda_phi
       ELSE IF N < K
       THEN /\ Raise("ValueError", "n_samples should be >= n_clusters")
            /\ lambda_phi' = lambda_phi
       ELSE /\ \E labels \in KMeansLabels : lambda_phi' = init_kmeans(labels)
            /\ pc' = "loop"
            /\ UNCHANGED <<exit, raised>>
    /\ IF pc' = "loop"
       THEN /\ lambda_pi' = zerosK
            /\ lambda_beta' = zerosK
            /\ lambda_nu' = zerosK
            /\ lambda_m' = [k \in Ks |-> << Zero, Zero >>]
            /\ lambda_W' = [k \in Ks |-> << <<Zero, Zero>>, <<Zero, Zero>> >>]
       ELSE UNCHANGED <<lambda_pi, lambda_beta, lambda_nu, lambda_m, lambda_W>>
    /\ phi_init' = lambda_phi'
    /\ UNCHANGED <<config, i, n_iters, lbs, lb, Nks, circs, saved,
                   softmax_call>>

\* a loop head that admits one sweep more than the budget
LoopContinuesInclusive(idx) == idx <= MAX_ITERS

\* for i in range(MAX_ITERS)
LoopContinues(idx) == idx < MAX_ITERS

LoopHead ==
    /\ pc = "loop"
    /\ IF LoopContinues(i)
       THEN pc' = Body[1] /\ exit' = exit
       ELSE pc' = "results" /\ exit' = "budget-exhausted"
    /\ UNCHANGED <<config, i, n_iters, lbs, lb, Nks, params, circs, saved,
                   raised, phi_init, softmax_call>>

UpdateLambdaPi ==
    /\ pc = "update_lambda_pi"
    /\ lambda_pi' = update_lambda_pi(lambda_phi, alpha_o)
    /\ pc' = After(pc)
    /\ UNCHANGED <<config, i, n_iters, lbs, lb, Nks, lambda_phi, lambda_beta,
                   lambda_nu, lambda_m, lambda_W, circs, saved, exit, raised,
                   phi_init, softmax_call>>

ComputeNks ==
    /\ pc = "Nks"
    /\ Nks' = ColumnSums(lambda_phi)
    /\ pc' = After(pc)
    /\ UNCHANGED <<config, i, n_iters, lbs, lb, params, circs, saved, exit,
                   raised, phi_init, softmax_call>>

UpdateLambdaBeta ==
    /\ pc = "update_lambda_beta"
    /\ lambda_beta' = update_lambda_beta(beta_o, Nks)
    /\ pc' = After(pc)
    /\ UNCHANGED <<config, i, n_iters, lbs, lb, Nks, lambda_phi, lambda_pi,
                   lambda_nu, lambda_m, lambda_W, circs, saved, exit, raised,
                   phi_init, softmax_call>>

UpdateLambdaNu ==
    /\ pc = "update_lambda_nu"
    /\ lambda_nu' = update_lambda_nu(nu_o, Nks)
    /\ pc' = After(pc)
    /\ UNCHANGED <<config, i, n_iters, lbs, lb, Nks, lambda_phi, lambda_pi,
                   lambda_beta, lambda_m, lambda_W, circs, saved, exit,
                   raised, phi_init, softmax_call>>

UpdateLambdaM ==
    /\ pc = "update_lambda_m"
    /\ lambda_m' = update_lambda_m(lambda_phi, lambda_beta, m_o, beta_o)
    /\ pc' = After(pc)
    /\ UNCHANGED <<config, i, n_iters, lbs, lb, Nks, lambda_phi, lambda_pi,
                   lambda_beta, lambda_nu, lambda_W, circs, saved, exit,
                   raised, phi_init, softmax_call>>

UpdateLambdaW ==
    /\ pc = "update_lambda_W"
    /\ lambda_W' = update_lambda_W(lambda_phi, lambda_beta, lambda_m, W_o,
                                   beta_o, m_o)
    /\ pc' = After(pc)
    /\ UNCHANGED <<config, i, n_iters, lbs, lb, Nks, lambda_phi, lambda_pi,
                   lambda_beta, lambda_nu, lambda_m, circs, saved, exit,
                   raised, phi_init, softmax_call>>

\* the first component whose lambda_W is singular, 0 if there is none
FirstSingular(W) ==
    IF \E k \in Ks : Singular(W[k])
    THEN CHOOSE k \in Ks :
            Singular(W[k]) /\ \A j \in 1..(k - 1) : ~Singular(W[j])
    ELSE 0

\* lambda_phi when inv() raises at the first point, component k: the entries
\* before k hold their scores, entry k the Dirichlet expectation that line 135
\* stored
PhiAtRaise(k) ==
    [lambda_phi EXCEPT ![1] = [j \in Ks |->
        IF j < k THEN Score(1, j, lambda_pi, lambda_m, lambda_nu, lambda_W,
                            lambda_beta)
        ELSE IF j = k THEN dirichlet_expectation(lambda_pi, k)
        ELSE lambda_phi[1][j]]]

UpdateLambdaPhi ==
    /\ pc = "update_lambda_phi"
    /\ IF N > 0 /\ FirstSingular(lambda_W) # 0
       THEN /\ Raise("LinAlgError", "Singular matrix")
            /\ lambda_phi' = PhiAtRaise(FirstSingular(lambda_W))
       ELSE /\ lambda_phi' = update_lambda_phi(lambda_pi, lambda_m, lambda_nu,
                                               lambda_W, lambda_beta)
            /\ pc' = After(pc)
            /\ UNCHANGED <<exit, raised>>
    /\ UNCHANGED <<config, i, n_iters, lbs, lb, Nks, lambda_pi, lambda_beta,
                   lambda_nu, lambda_m, lambda_W, circs, saved, phi_init,
                   softmax_call>>

Elbo ==
    /\ pc = "elbo"
    /\ IF FirstSingular(lambda_W) # 0
       THEN Raise("LinAlgError", "Singular matrix") /\ lb' = lb
       ELSE /\ lb' = elbo(lambda_phi, lambda_pi, lambda_m, lambda_W,
                          lambda_beta, lambda_nu, Nks)
            /\ pc' = After(pc)
            /\ UNCHANGED <<exit, raised>>
    /\ UNCHANGED <<config, i, n_iters, lbs, Nks, params, circs, saved,
                   phi_init, softmax_call>>

\* a trace that keeps the latest value only
RecordElboOverwrite(trace, value) == << value >>

\* lbs.append(lb)
RecordElbo(trace, value) == Append(trace, value)

\* lbs.append(lb); n_iters += 1
AppendLb ==
    /\ pc = "append"
    /\ lbs' = RecordElbo(lbs, lb)
    /\ n_iters' = n_iters + 1
    /\ pc' = After(pc)
    /\ UNCHANGED <<config, i, lb, Nks, params, circs, saved, exit, raised,
                   phi_init, softmax_call>>

\* create_cov_ellipse of module viz builds one artist from the covariance and
\* the mean it is handed, and writes to neither
create_cov_ellipse(cov, pos) == "ellipse"

\* plot_iteration draws the points when i == 0 and K ellipses afterwards
plot_iteration(idx) ==
    IF idx = 0 THEN circs
    ELSE [k \in Ks |->
            create_cov_ellipse(
                MatScale(Div(Int2F(1), Sub(lambda_nu[k], Int2F(D + 1))),
                         lambda_W[k]),
                lambda_m[k])]

\* an observer that recentres the means it draws
ObserveRecentring ==
    /\ pc = "observe"
    /\ circs' = plot_iteration(i)
    /\ lambda_m' = [k \in Ks |-> << Zero, Zero >>]
    /\ pc' = "break_check"
    /\ UNCHANGED <<config, i, n_iters, lbs, lb, Nks, lambda_phi, lambda_pi,
                   lambda_beta, lambda_nu, lambda_W, saved, exit, raised,
                   phi_init, softmax_call>>

\* if VERBOSE: the prints and plot_iteration
Observe ==
    /\ pc = "observe"
    /\ circs' = plot_iteration(i)
    /\ pc' = "break_check"
    /\ UNCHANGED <<config, i, n_iters, lbs, lb, Nks, params, saved, exit,
                   raised, phi_init, softmax_call>>

\* lbs[j] with Python's indexing: 0-based, negative j counts from the end
PyIndex(s, j) == IF j < 0 THEN s[Len(s) + j + 1] ELSE s[j + 1]

\* the convergence test without its i > 0
BreakConditionEverySweep(idx, cur, trace) ==
    BelowThreshold(Abs(Sub(cur, PyIndex(trace, idx - 1))))

\* i > 0 and abs(lb - lbs[i - 1]) < THRESHOLD
BreakCondition(idx, cur, trace) ==
    idx > 0 /\ BelowThreshold(Abs(Sub(cur, PyIndex(trace, idx - 1))))

BreakCheck ==
    /\ pc = "break_check"
    /\ IF BreakCondition(i, lb, lbs)
       THEN /\ saved' = TRUE
            /\ pc' = "results"
            /\ exit' = "converged"
            /\ i' = i
       ELSE /\ saved' = saved
            /\ pc' = "loop"
            /\ exit' = exit
            /\ i' = i + 1
    /\ UNCHANGED <<config, n_iters, lbs, lb, Nks, params, circs, raised,
                   phi_init, softmax_call>>

\* lines 330-340: the results are printed, nothing is written
Results ==
    /\ pc = "results"
    /\ pc' = "done"
    /\ UNCHANGED <<config, i, n_iters, lbs, lb, Nks, params, circs, saved,
                   exit, raised, phi_init, softmax_call>>

Next ==
    \/ Initialize
    \/ LoopHead
    \/ UpdateLambdaPi
    \/ ComputeNks
    \/ UpdateLambdaBeta
    \/ UpdateLambdaNu
    \/ UpdateLambdaM
    \/ UpdateLambdaW
    \/ UpdateLambdaPhi
    \/ Elbo
    \/ AppendLb
    \/ Observe
    \/ BreakCheck
    \/ Results

Spec == Init /\ [][Next]_vars

\* the positions of main()
Positions ==
    {"start", "loop", "observe", "break_check", "results", "done", "error"}
        \cup {Body[j] : j \in 1..Len(Body)}

\* the interpreter moves on to the next statement: every step of Next leaves
\* its position, and only "done" and "error" have no step
Advance == pc \notin {"done", "error"} /\ pc' \in Positions \ {pc}

\* main() is one sequential thread: a statement that can run does run
FairSpec == Spec /\ WF_pc(Advance)

(***************************************************************************)
(* softmax() on its own: one call, from the e_x it computes at line 55 to  *)
(* the row it returns, exactly, in units of eps                            *)
(***************************************************************************)
SoftmaxMaxK == 10

\* values of exp(x - max(x)) in units of eps: 0 (underflow), eps, 1/2, 1
ExpLevels == { 0, 1, EpsInv \div 2, EpsInv }

\* e_x of a row whose first score is the maximum
ExpRows(n) ==
    { [k \in 1..n |-> IF k = 1 THEN EpsInv ELSE IF k < n THEN a ELSE b] :
        a \in ExpLevels, b \in ExpLevels }

SoftmaxInit ==
    /\ K \in 2..SoftmaxMaxK
    /\ e_x \in ExpRows(K)
    /\ ret = << >>
    /\ pc = "softmax"
    /\ MAX_ITERS = 0
    /\ VERBOSE = FALSE
    /\ RANDOM_INIT = FALSE
    /\ xn = << >>
    /\ i = 0
    /\ n_iters = 0
    /\ lbs = << >>
    /\ lb = Zero
    /\ Nks = << >>
    /\ lambda_phi = << >>
    /\ lambda_pi = << >>
    /\ lambda_beta = << >>
    /\ lambda_nu = << >>
    /\ lambda_m = << >>
    /\ lambda_W = << >>
    /\ circs = << >>
    /\ saved = FALSE
    /\ exit = "running"
    /\ raised = NoException
    /\ phi_init = << >>

\* return (e_x + eps) / (e_x.sum(axis=0) + eps)
SoftmaxReturn ==
    /\ pc = "softmax"
    /\ ret' = [num |-> softmaxNum(e_x), den |-> softmaxDen(e_x)]
    /\ pc' = "returned"
    /\ UNCHANGED <<config, i, n_iters, lbs, lb, Nks, params, circs, saved,
                   exit, raised, phi_init, e_x>>

SoftmaxNext == SoftmaxReturn

SoftmaxSpec == SoftmaxInit /\ [][SoftmaxNext]_vars

(***************************************************************************)
(* The trajectory of a run as a function of its initialisation: the state  *)
(* after j sweeps, each sweep the six updates composed in the documented   *)
(* order, every update fed the values the earlier ones produced            *)
(***************************************************************************)
SweepFrom(phi) ==
    LET pi_  == update_lambda_pi(phi, alpha_o)
        nks  == ColumnSums(phi)
        beta == update_lambda_beta(beta_o, nks)
        nu   == update_lambda_nu(nu_o, nks)
        m    == update_lambda_m(phi, beta, m_o, beta_o)
        W    == update_lambda_W(phi, beta, m, W_o, beta_o, m_o)
        phi2 == update_lambda_phi(pi_, m, nu, W, beta)
    IN  [pi |-> pi_, nks |-> nks, beta |-> beta, nu |-> nu, m |-> m,
         W |-> W, phi |-> phi2,
         lb |-> elbo(phi2, pi_, m, W, beta, nu, nks)]

\* the run as the initialisation leaves it
RunStart ==
    [st |-> [phi |-> phi_init, pi |-> zerosK, beta |-> zerosK, nu |-> zerosK,
             m |-> [k \in Ks |-> << Zero, Zero >>],
             W |-> [k \in Ks |-> << <<Zero, Zero>>, <<Zero, Zero>> >>],
             nks |-> << >>, lb |-> Zero],
     trace |-> << >>]

\* one more sweep, its ELBO appended to the trace
Extend(r) ==
    LET q == SweepFrom(r.st.phi)
    IN  [st |-> q, trace |-> Append(r.trace, q.lb)]

\* the run r continued until it has made j sweeps
RECURSIVE RunTo(_, _)
RunTo(r, j) == IF Len(r.trace) >= j THEN r ELSE RunTo(Extend(r), j)

RunAfter(j) == RunTo(RunStart, j)

StateAfter(j) == RunAfter(j).st

ParamsOf(q) == << q.phi, q.pi, q.beta, q.nu, q.m, q.W >>

\* entry j of a trace meets the convergence test
TraceStops(t, j) ==
    j >= 2 /\ BelowThreshold(Abs(Sub(t[j], t[j - 1])))

Halted == pc \in {"done", "error"}

(***************************************************************************)
(* C1                                                                      *)
(***************************************************************************)
\* sweep j of the recorded trace meets |ELBO_j - ELBO_{j-1}| < 1e-10
ConvergedAt(j) ==
    j >= 2 /\ BelowThreshold(Abs(Sub(lbs[j], lbs[j - 1])))

C1_Safety ==
    MAX_ITERS >= 1 =>
        /\ n_iters <= MAX_ITERS
        /\ \A j \in 1..(Len(lbs) - 1) : ~ConvergedAt(j)
        /\ ConvergedAt(Len(lbs)) =>
               pc \in {"observe", "break_check", "results", "done"}
        /\ exit = "converged" => ConvergedAt(Len(lbs))
        /\ exit = "budget-exhausted" =>
               n_iters = MAX_ITERS /\ ~ConvergedAt(Len(lbs))
        /\ pc \in {"results", "done"} =>
               exit \in {"converged", "budget-exhausted"}

\* C1: for maxIterations >= 1 the loop runs sweeps 1, 2, ... and stops after
\* the first sweep j >= 2 with |ELBO_j - ELBO_{j-1}| < 1e-10, or after sweep
\* maxIterations if there is none: the first sweep never stops the loop, no
\* sweep follows the stopping sweep, at most maxIterations sweeps are made,
\* and every run comes to a halt.
C1_LoopStopsAtFirstConvergedSweep == []C1_Safety /\ <>Halted

\* a run that stopped on convergence before its budget was used up
C1_Witness ==
    pc = "done" /\ exit = "converged" /\ n_iters >= 2 /\ n_iters < MAX_ITERS

(***************************************************************************)
(* C2                                                                      *)
(***************************************************************************)
\* C2: every row softmax returns has non-negative entries whose sum differs
\* from 1 by less than 1e-6, for every K >= 2:
\* |sum(num) - den| / den < 10^-6.
C2_RowsSumToOne ==
    pc = "returned" =>
        /\ \A k \in 1..K : ret.num[k] >= 0
        /\ AbsV(SumInt(ret.num, K) - ret.den) * 10^6 < ret.den

(***************************************************************************)
(* C3                                                                      *)
(***************************************************************************)
SweepCompleted ==
    /\ n_iters >= 1
    /\ pc \in {"observe", "break_check", "loop", "results", "done"}

Symmetric(A) == A[1][2] = A[2][1]

PositiveDefinite(A) == Symmetric(A) /\ A[1][1].v > 0 /\ det(A).v > 0

\* C3: after every completed sweep every lambda_W[k] is symmetric and
\* positive-definite.
C3_LambdaWSymmetricPositiveDefinite ==
    SweepCompleted => \A k \in Ks : PositiveDefinite(lambda_W[k])

(***************************************************************************)
(* C4                                                                      *)
(***************************************************************************)
\* the tolerance 1e-6, on the grid
Tolerance == F(DivV(U, 10^6))

\* C4: the ELBO trace is non-decreasing: ELBO_j >= ELBO_{j-1} - 1e-6 for all
\* consecutive sweeps.
C4_ElboNonDecreasing ==
    \A j \in 2..Len(lbs) : ~Lt(lbs[j], Sub(lbs[j - 1], Tolerance))

(***************************************************************************)
(* C5                                                                      *)
(***************************************************************************)
C5_Inv ==
    /\ Len(lbs) = n_iters
    /\ n_iters <= MAX_ITERS
    /\ (pc = "loop" /\ exit = "running") => n_iters = i

C5_AppendOnly ==
    /\ Len(lbs') >= Len(lbs) /\ SubSeq(lbs', 1, Len(lbs)) = lbs
    /\ lbs' # lbs =>
           pc = "append" /\ lbs' = Append(lbs, lb) /\ n_iters' = n_iters + 1
    /\ n_iters' # n_iters => lbs' # lbs

\* C5: at every sweep boundary the ELBO trace holds exactly one value per
\* completed sweep, in sweep order: each sweep appends the ELBO it evaluated
\* and counts one iteration, so the iteration count is the length of the
\* trace and never exceeds maxIterations; an entry once appended is never
\* changed or removed.
C5_TraceOnePerSweep == []C5_Inv /\ [][C5_AppendOnly]_vars

\* a run that used up a budget of at least two sweeps
C5_Witness ==
    pc = "done" /\ exit = "budget-exhausted" /\ Len(lbs) >= 2

(***************************************************************************)
(* C6                                                                      *)
(***************************************************************************)
\* C6: with maxIterations = 0 no update and no ELBO evaluation runs, and the
\* run ends with the parameters as the initialisation left them, an empty
\* trace, an iteration count of 0 and the reason budget-exhausted.
C6_ZeroIterations ==
    MAX_ITERS = 0 =>
        /\ pc \in {"start", "loop", "results", "done", "error", "softmax",
                   "returned"}
        /\ lbs = << >>
        /\ n_iters = 0
        /\ pc \in {"results", "done"} =>
              /\ exit = "budget-exhausted"
              /\ params = ParamsOf(StateAfter(0))

\* a finished run with maxIterations = 0
C6_Witness == MAX_ITERS = 0 /\ pc = "done" /\ lambda_phi # << >>

(***************************************************************************)
(* C7                                                                      *)
(***************************************************************************)
\* C7: with K < 2 the run is rejected before any initialisation, update or
\* ELBO computation: no variational parameter is ever created or updated.
C7_SmallKRejected ==
    K < 2 =>
        /\ pc \in {"start", "error"}
        /\ params = << << >>, << >>, << >>, << >>, << >>, << >> >>

(***************************************************************************)
(* C8                                                                      *)
(***************************************************************************)
\* C8: an inversion of a singular lambda_W[k] aborts the run there with an
\* error that identifies component k; no ELBO of that sweep is appended and
\* the run never goes on past the inversion.
C8_SingularAbortNamesComponent ==
    /\ pc \in {"elbo", "append", "observe", "break_check"} =>
           FirstSingular(lambda_W) = 0
    /\ raised.type = "LinAlgError" =>
           /\ pc = "error"
           /\ Len(lbs) = i
           /\ "component" \in DOMAIN raised
           /\ raised.component = FirstSingular(lambda_W)

(***************************************************************************)
(* C9                                                                      *)
(***************************************************************************)
C9_Inv ==
    (VERBOSE /\ exit # "exception"
        /\ pc \in {"break_check", "results", "done"}) =>
        LET r == RunAfter(n_iters)
        IN  /\ params = ParamsOf(r.st)
            /\ lbs = r.trace
            /\ pc \in {"results", "done"} =>
                  /\ \A j \in 1..(n_iters - 1) : ~TraceStops(r.trace, j)
                  /\ TraceStops(r.trace, n_iters) \/ n_iters = MAX_ITERS

C9_Frame ==
    (pc = "observe" \/ saved' # saved) => UNCHANGED <<params, lbs, n_iters>>

\* C9: a run with the per-iteration observer goes through the parameter
\* states, the ELBO trace and the number of sweeps of the run without it
\* (the trajectory its initialisation determines, stopped at its first
\* converged sweep or at the budget); the observer step and the image saving
\* leave parameters, trace and iteration count unchanged.
C9_ObserverDoesNotInterfere == []C9_Inv /\ [][C9_Frame]_vars

\* a verbose run of two or more sweeps that drew the ellipses and saved the
\* image
C9_Witness ==
    VERBOSE /\ pc = "done" /\ n_iters >= 2 /\ Len(circs) = K /\ saved

(***************************************************************************)
(* C10                                                                     *)
(***************************************************************************)
C10_Order ==
    /\ pc = "update_lambda_pi" => pc' = "Nks"
    /\ pc = "Nks" => pc' = "update_lambda_beta"
    /\ pc = "update_lambda_beta" => pc' = "update_lambda_nu"
    /\ pc = "update_lambda_nu" => pc' = "update_lambda_m"
    /\ pc = "update_lambda_m" => pc' = "update_lambda_W"
    /\ pc = "update_lambda_W" => pc' = "update_lambda_phi"
    /\ pc = "update_lambda_phi" => pc' \in {"elbo", "error"}
    /\ pc = "elbo" => pc' \in {"append", "error"}
    /\ (lambda_pi' # lambda_pi /\ pc # "start") => pc = "update_lambda_pi"
    /\ (lambda_beta' # lambda_beta /\ pc # "start") => pc = "update_lambda_beta"
    /\ (lambda_nu' # lambda_nu /\ pc # "start") => pc = "update_lambda_nu"
    /\ (lambda_m' # lambda_m /\ pc # "start") => pc = "update_lambda_m"
    /\ (lambda_W' # lambda_W /\ pc # "start") => pc = "update_lambda_W"
    /\ (lambda_phi' # lambda_phi /\ pc # "start") => pc = "update_lambda_phi"
    /\ lb' # lb => pc = "elbo"

C10_Values ==
    pc = "append" =>
        LET q == StateAfter(i + 1)
        IN  params = ParamsOf(q) /\ lb = q.lb

\* C10: in every sweep the six parameters are written once each in the order
\* lambda_pi, lambda_beta, lambda_nu, lambda_m, lambda_W, lambda_phi, every
\* update reading what the earlier updates of the same sweep wrote, and the
\* ELBO of the sweep is evaluated after all six.
C10_UpdatesInOrderOnFreshValues == []C10_Values /\ [][C10_Order]_vars

\* the end of a later sweep, where lambda_W computed from the previous sweep's
\* lambda_beta and lambda_m would have been another matrix
C10_Witness ==
    /\ pc = "append"
    /\ i >= 1
    /\ LET q == StateAfter(i)
       IN  lambda_W # update_lambda_W(q.phi, q.beta, q.m, W_o, beta_o, m_o)

(***************************************************************************)
(* C11                                                                     *)
(***************************************************************************)
\* lambda_phi as it was when the sweep that completed last started
PhiAtSweepStart == StateAfter(n_iters - 1).phi

\* the three count-driven parameters of component k exceed their priors by c
CountIncrements(k, c) ==
    /\ Sub(lambda_pi[k], alpha_o[k]) = c
    /\ Sub(lambda_beta[k], beta_o) = c
    /\ Sub(lambda_nu[k], nu_o) = c

\* C11: after every completed sweep, for every component k,
\* lambda_pi[k] - alpha_o[k] = lambda_beta[k] - beta_o = lambda_nu[k] - nu_o
\* = Nks[k], Nks being the column sums of lambda_phi as it was at the start
\* of that sweep; the sweep's ELBO was evaluated with this same Nks; and
\* lambda_nu[k] >= nu_o > D - 1.
C11_CountsFromSweepStart ==
    SweepCompleted =>
        LET counts == ColumnSums(PhiAtSweepStart)
        IN  /\ Nks = counts
            /\ \A k \in Ks : CountIncrements(k, counts[k])
            /\ lb = elbo(lambda_phi, lambda_pi, lambda_m, lambda_W,
                         lambda_beta, lambda_nu, counts)
            /\ \A k \in Ks : ~Lt(lambda_nu[k], nu_o)
            /\ Lt(Int2F(D - 1), nu_o)

\* a run of at least two sweeps has ended, and the sweep has moved the column
\* sums of lambda_phi away from the counts the parameters were built from
C11_Witness ==
    /\ pc = "done"
    /\ n_iters >= 2
    /\ \E k \in Ks : Nks[k].v > 0 /\ ColumnSums(lambda_phi)[k] # Nks[k]

=============================================================================
